---- MODULE Spec2Model ----
(***************************************************************************)
(* Flask backend that validates a YouTube URL, sweeps a scratch directory, *)
(* downloads through yt-dlp and streams the file back (src/app.py).        *)
(* Strings are sequences of one-character strings, so that the regular     *)
(* expressions, strip(), slicing and substring tests are computed.         *)
(***************************************************************************)
EXTENDS Integers, Sequences, FiniteSets, TLC

VARIABLES clock, ticks, fs, rq, sample

vars == <<clock, ticks, fs, rq, sample>>

(* ------------------------------ bounds -------------------------------- *)
\* number of requests in flight at the same time
NumRequests == 2
\* number of requests in flight when the handlers are checked one by one
NumServed == 1
\* number of times the wall clock advances in a behaviour
MaxTicks == 1
\* clock resolution: clock units per second (time.time() is fractional)
UnitsPerSecond == 2
\* longest tail appended to the padding of a clean_filename input
MaxTail == 3

(* ------------------------- program constants -------------------------- *)
\* if file_age > 3600
MaxAge == 3600
\* if len(cleaned) > 200: cleaned = cleaned[:200]
MaxNameLen == 200

Requests == 1 .. NumRequests

(* --------------------------- string helpers --------------------------- *)
\* A character is a one-character string. A string of this module holds the
\* characters U+0000 .. U+00FF; the classes below are Python's on that range.
\* str.isspace(): space, \t, \n, \r, \f, then U+000B, U+001C .. U+001F, U+0085
\* and U+00A0 (no-break space), written as the characters themselves
Whitespace ==
    {" ", "\t", "\n", "\r", "\f", "", "", "", "", "", "", " "}
Digits == {"0", "1", "2", "3", "4", "5", "6", "7", "8", "9"}
\* the characters str.lower() changes, and what it changes them to
UpperLetters == <<"A", "B", "C", "D", "E", "F", "G", "H", "I", "J", "K", "L", "M", "N", "O", "P", "Q", "R", "S", "T", "U", "V", "W", "X", "Y", "Z", "À", "Á", "Â", "Ã", "Ä", "Å", "Æ", "Ç", "È", "É", "Ê", "Ë", "Ì", "Í", "Î", "Ï", "Ð", "Ñ", "Ò", "Ó", "Ô", "Õ", "Ö", "Ø", "Ù", "Ú", "Û", "Ü", "Ý", "Þ">>
LowerLetters == <<"a", "b", "c", "d", "e", "f", "g", "h", "i", "j", "k", "l", "m", "n", "o", "p", "q", "r", "s", "t", "u", "v", "w", "x", "y", "z", "à", "á", "â", "ã", "ä", "å", "æ", "ç", "è", "é", "ê", "ë", "ì", "í", "î", "ï", "ð", "ñ", "ò", "ó", "ô", "õ", "ö", "ø", "ù", "ú", "û", "ü", "ý", "þ">>
Range(s) == {s[i] : i \in DOMAIN s}
\* \w of the re module on a str pattern: letters, digits and numeric characters
\* (Unicode-aware) and the underscore
WordChars ==
    Range(UpperLetters) \cup Range(LowerLetters) \cup Digits \cup {"_"}
        \cup Range(<<"ª", "²", "³", "µ", "¹", "º", "¼", "½", "¾", "ß", "ÿ">>)

\* str.strip(chars): drop the leading and trailing characters that are in chars
strip(s, chars) ==
    LET first == CHOOSE i \in 1 .. Len(s) + 1 :
                     /\ (i = Len(s) + 1 \/ s[i] \notin chars)
                     /\ \A j \in 1 .. i - 1 : s[j] \in chars
        last == CHOOSE i \in 0 .. Len(s) :
                     /\ (i = 0 \/ s[i] \notin chars)
                     /\ \A j \in i + 1 .. Len(s) : s[j] \in chars
    IN  SubSeq(s, first, last)

\* s.startswith(p)
StartsWith(s, p) == Len(p) <= Len(s) /\ SubSeq(s, 1, Len(p)) = p

\* sub in s
Contains(s, sub) ==
    \E i \in 0 .. Len(s) - Len(sub) : SubSeq(s, i + 1, i + Len(sub)) = sub

\* str.lower()
lower(s) ==
    [i \in DOMAIN s |->
        IF \E k \in DOMAIN UpperLetters : UpperLetters[k] = s[i]
        THEN LowerLetters[CHOOSE k \in DOMAIN UpperLetters : UpperLetters[k] = s[i]]
        ELSE s[i]]

(* ------------------------ validate_youtube_url ------------------------ *)
\* (https?://)?
SchemePrefixes == {<<>>, <<"h", "t", "t", "p", ":", "/", "/">>, <<"h", "t", "t", "p", "s", ":", "/", "/">>}
\* (www\.)?
WwwPrefixes == {<<>>, <<"w", "w", "w", ".">>}
\* (youtube|youtu|youtube-nocookie)
HostNames == {<<"y", "o", "u", "t", "u", "b", "e">>, <<"y", "o", "u", "t", "u">>, <<"y", "o", "u", "t", "u", "b", "e", "-", "n", "o", "c", "o", "o", "k", "i", "e">>}
\* (com|be)
TopLevels == {<<"c", "o", "m">>, <<"b", "e">>}

\* re.match(r'(https?://)?(www\.)?(youtube|youtu|youtube-nocookie)\.(com|be)/', url)
MatchAnyHost(url) ==
    \E sc \in SchemePrefixes, w \in WwwPrefixes, h \in HostNames, t \in TopLevels :
        StartsWith(url, sc \o w \o h \o <<".">> \o t \o <<"/">>)

\* re.match(r'(https?://)?(www\.)?<literal>[\w-]+', url)
MatchWithId(url, literal) ==
    \E sc \in SchemePrefixes, w \in WwwPrefixes :
        LET p == sc \o w \o literal
        IN  /\ StartsWith(url, p)
            /\ Len(url) > Len(p)
            /\ url[Len(p) + 1] \in WordChars \cup {"-"}

validate_youtube_url(url) ==
    \/ MatchAnyHost(url)
    \/ MatchWithId(url, <<"y", "o", "u", "t", "u", "b", "e", ".", "c", "o", "m", "/", "w", "a", "t", "c", "h", "?", "v", "=">>)
    \/ MatchWithId(url, <<"y", "o", "u", "t", "u", ".", "b", "e", "/">>)

(* --------------------------- clean_filename --------------------------- *)
\* the class [<>:"/\\|?*]
IllegalChars == {"<", ">", ":", "\"", "/", "\\", "|", "?", "*"}

clean_filename(filename) ==
    LET removed == SelectSeq(filename, LAMBDA c : c \notin IllegalChars)
        stripped == strip(removed, {".", " "})
        cut == IF Len(stripped) > MaxNameLen
               THEN SubSeq(stripped, 1, MaxNameLen)
               ELSE stripped
    IN  IF cut # <<>> THEN cut ELSE <<"d", "o", "w", "n", "l", "o", "a", "d">>

(* ------------------------- scratch directory -------------------------- *)
\* A name in DOWNLOAD_DIR: f'{kind}_{timestamp}_%(title)s.%(ext)s' after yt-dlp
\* has substituted title and extension.
FileName(kind, timestamp, title, ext) ==
    [kind |-> kind, ts |-> timestamp, title |-> title, ext |-> ext]
NoName == FileName("", 0, <<>>, "")

\* str(DOWNLOAD_DIR / f'video_{timestamp}_%(title)s.%(ext)s') with the fields filled in
output_template(kind, timestamp, info) == FileName(kind, timestamp, info.title, info.ext)

\* os.path.splitext(filename)[0] + '.' + ext
with_ext(filename, ext) == [filename EXCEPT !.ext = ext]

Entry(name, type, mtime) == [name |-> name, type |-> type, mtime |-> mtime]
Names(dir) == {e.name : e \in dir}
\* os.path.exists(filename) / Path.exists()
exists(dir, name) == name \in Names(dir)
\* Path.is_file(): false when the entry is gone or is not a regular file
is_file(dir, name) == \E e \in dir : e.name = name /\ e.type = "file"
\* Path.stat().st_mtime
st_mtime(dir, name) == (CHOOSE e \in dir : e.name = name).mtime
\* Path.unlink()
unlink(dir, name) == {e \in dir : e.name # name}
\* the extraction library creates or overwrites a regular file
write_file(dir, name, now) == unlink(dir, name) \cup {Entry(name, "file", now)}

\* variant of is_old: the comparison written >= instead of >
is_old_inclusive(current_time, mtime) == current_time - mtime >= MaxAge * UnitsPerSecond

\* file_age = current_time - st_mtime ; if file_age > 3600
is_old(current_time, mtime) == current_time - mtime > MaxAge * UnitsPerSecond

\* timestamp = int(time.time())
int_time(now) == now \div UnitsPerSecond

(* ------------------------------ requests ------------------------------ *)
Handlers == {"info", "video", "audio"}

Body(json, has_url, type, chars) ==
    [json |-> json, has_url |-> has_url, type |-> type, chars |-> chars]
\* a request without a JSON body
NoJsonBody == Body(FALSE, FALSE, "none", <<>>)
\* {} : a JSON object without the url key
NoUrlBody == Body(TRUE, FALSE, "none", <<>>)
\* {"url": 123} and {"url": null}
NumberUrlBody == Body(TRUE, TRUE, "number", <<>>)
NullUrlBody == Body(TRUE, TRUE, "null", <<>>)
StringUrlBody(chars) == Body(TRUE, TRUE, "string", chars)

UrlSamples ==
    { <<>>, <<" ", "\f">>, <<"y", "o", "u", "t", "u", ".", "b", "e", "/", "a">>, <<"\f", " ", "y", "o", "u", "t", "u", ".", "b", "e", "/", "a", "\n">>, <<"h", "t", "t", "p", "s", ":", "/", "/", "w", "w", "w", ".", "y", "o", "u", "t", "u", "b", "e", ".", "c", "o", "m", "/", "w", "a", "t", "c", "h", "?", "v", "=", "a">>,
      <<"x", ".", "c", "o", "m", "/", "y", "o", "u", "t", "u", ".", "b", "e", "/", "a">>, <<"y", "o", "u", "t", "u", "b", "e", ".", "c", "o", "m">>, <<"n", "o", "t", "a", "u", "r", "l">> }

Bodies ==
    {NoJsonBody, NoUrlBody, NumberUrlBody, NullUrlBody}
        \cup {StringUrlBody(u) : u \in UrlSamples}

\* variant of gate: the validate_youtube_url test left out
gate_without_validation(body) ==
    IF ~body.json THEN "exception"
    ELSE IF ~body.has_url THEN "empty"
    ELSE IF body.type # "string" THEN "exception"
    ELSE IF strip(body.chars, Whitespace) = <<>> THEN "empty" ELSE "pass"

\* data = request.get_json(); url = data.get('url', '').strip();
\* if not url: 400; if not validate_youtube_url(url): 400.
\* "exception": get_json() raises or returns None, or the url value has no strip().
gate(body) ==
    IF ~body.json THEN "exception"
    ELSE IF ~body.has_url THEN "empty"
    ELSE IF body.type # "string" THEN "exception"
    ELSE LET url == strip(body.chars, Whitespace)
         IN  IF url = <<>> THEN "empty"
             ELSE IF ~validate_youtube_url(url) THEN "invalid"
             ELSE "pass"

\* variant of after_validate: the call of clean_old_files() left out
after_validate_without_sweep(handler) ==
    IF handler = "info" THEN "info_extract" ELSE "allocate"

\* the statement that follows the validation in each handler
after_validate(handler) == IF handler = "info" THEN "info_extract" ELSE "clean_time"

\* what the site reports for a video: info['title']
VideoTitle(url) == <<"H", "i", ":", " ", "a", "?">>

ErrorMessages ==
    { <<"H", "T", "T", "P", " ", "E", "r", "r", "o", "r", " ", "4", "0", "3">>, <<"F", "F", "m", "p", "e", "g", " ", "4", "0", "3">>, <<"f", "f", "p", "r", "o", "b", "e", ":", " ", "F", "o", "r", "b", "i", "d", "d", "e", "n">>,
      <<"f", "f", "m", "p", "e", "g", " ", "m", "i", "s", "s", "i", "n", "g">>, <<"f", "o", "r", "b", "i", "d", "d", "e", "n">>, <<"t", "i", "m", "e", "d", " ", "o", "u", "t">> }

Outcome(type, ext, made, msg) == [type |-> type, ext |-> ext, made |-> made, msg |-> msg]
\* results of ydl.extract_info(url, download=True): info['ext'] and the file that
\* is on disk afterwards (none, the prepared name, or the converted sibling),
\* a yt_dlp.utils.DownloadError with a message, or another exception
ExtractOutcomes ==
    {Outcome("ok", e, m, <<>>) : e \in {"webm", "mp4"}, m \in {"none", "base", "final"}}
        \cup {Outcome("download_error", "", "", msg) : msg \in ErrorMessages}
        \cup {Outcome("exception", "", "", <<>>)}

\* the extension the post-processing gives the final file
final_ext(handler) == IF handler = "audio" THEN "mp3" ELSE "mp4"

\* except yt_dlp.utils.DownloadError in download_video
download_video_error(msg) ==
    IF Contains(msg, <<"4", "0", "3">>) \/ Contains(msg, <<"F", "o", "r", "b", "i", "d", "d", "e", "n">>)
    THEN [status |-> 403, error |-> "YouTube blocked the download. Try a different video."]
    ELSE [status |-> 500, error |-> "Download error"]

\* variant of download_audio_error: the ffmpeg test placed before the 403 test
download_audio_error_ffmpeg_first(msg) ==
    IF Contains(lower(msg), <<"f", "f", "m", "p", "e", "g">>) \/ Contains(lower(msg), <<"f", "f", "p", "r", "o", "b", "e">>)
    THEN [status |-> 500, error |-> "FFmpeg error"]
    ELSE IF Contains(msg, <<"4", "0", "3">>) \/ Contains(msg, <<"F", "o", "r", "b", "i", "d", "d", "e", "n">>)
    THEN [status |-> 403, error |-> "YouTube blocked the download. Try a different video."]
    ELSE [status |-> 500, error |-> "Download error"]

\* except yt_dlp.utils.DownloadError in download_audio
download_audio_error(msg) ==
    IF Contains(msg, <<"4", "0", "3">>) \/ Contains(msg, <<"F", "o", "r", "b", "i", "d", "d", "e", "n">>)
    THEN [status |-> 403, error |-> "YouTube blocked the download. Try a different video."]
    ELSE IF Contains(lower(msg), <<"f", "f", "m", "p", "e", "g">>) \/ Contains(lower(msg), <<"f", "f", "p", "r", "o", "b", "e">>)
    THEN [status |-> 500, error |-> "FFmpeg error"]
    ELSE [status |-> 500, error |-> "Download error"]

download_error(handler, msg) ==
    IF handler = "audio" THEN download_audio_error(msg) ELSE download_video_error(msg)

\* variant of audio_filename: the extension not replaced
audio_filename_unchanged(base_filename) == base_filename

\* filename = os.path.splitext(base_filename)[0] + '.mp3'
audio_filename(base_filename) == with_ext(base_filename, "mp3")

\* the file the handler goes on with after ydl.prepare_filename(info)
expected_filename(handler, prepared) ==
    IF handler = "audio" THEN audio_filename(prepared) ELSE prepared

\* filename_mp4 = os.path.splitext(filename)[0] + '.mp4'
mp4_sibling(filename) == with_ext(filename, "mp4")

(* ------------------------------- state -------------------------------- *)
\* One request (a thread of the HTTP server). Besides the handler's locals it keeps
\* what the claims read back: listed, removed, on_disk, mp4_seen, wrote, raised
\* and trace record what happened; they never influence a step.
IdleRequest ==
    [ pc |-> "idle", handler |-> "", body |-> NoJsonBody, url |-> <<>>,
      current_time |-> 0, todo |-> {}, file |-> NoName, sweep_error |-> FALSE,
      listed |-> {}, removed |-> {},
      timestamp |-> 0, prepared |-> NoName, filename |-> NoName, title |-> <<>>,
      wrote |-> NoName, raised |-> <<>>, on_disk |-> {}, mp4_seen |-> "unchecked",
      status |-> 0, resp |-> "none", error |-> "", served |-> NoName,
      trace |-> <<>> ]

\* DOWNLOAD_DIR as an earlier run of the server left it
OldVideo == Entry(FileName("video", 1, <<"o", "l", "d">>, "mp4"), "file", (MaxAge - 60) * UnitsPerSecond)
OldAudio == Entry(FileName("audio", 0, <<"o", "l", "d">>, "mp3"), "file", 0)

StartClock == 2 * MaxAge * UnitsPerSecond

NoSample == [stage |-> "off", in |-> <<>>, once |-> <<>>, twice |-> <<>>]

Init ==
    /\ clock = StartClock
    /\ ticks = 0
    /\ fs = {OldVideo, OldAudio}
    /\ rq = [r \in Requests |-> IdleRequest]
    /\ sample = NoSample

\* return jsonify({'error': ...}), status
respond(req, status, error) ==
    [req EXCEPT !.pc = "done", !.status = status, !.resp = "json_error", !.error = error]

\* the generic "except Exception" branch of a handler
unexpected(req) ==
    respond(req, 500,
            IF req.handler = "info" THEN "Failed to fetch video info" ELSE "Download failed")

(* ------------------------------ the clock ----------------------------- *)
\* time passes: by one clock unit, or by just over the eviction age
TickSteps == {1, MaxAge * UnitsPerSecond + 1}

Tick ==
    /\ ticks < MaxTicks
    /\ \E d \in TickSteps : clock' = clock + d
    /\ ticks' = ticks + 1
    /\ UNCHANGED <<fs, rq, sample>>

(* ------------------- request parsing and validation ------------------- *)
Receive(r) ==
    /\ rq[r].pc = "idle"
    /\ \E h \in Handlers, b \in Bodies :
          LET g == gate(b)
              req == [rq[r] EXCEPT !.handler = h, !.body = b]
              url == strip(b.chars, Whitespace)
          IN  rq' = [rq EXCEPT ![r] =
                  CASE g = "exception" -> unexpected(req)
                    [] g = "empty" -> respond(req, 400, "URL is required")
                    [] g = "invalid" ->
                         respond([req EXCEPT !.trace = <<"validate">>], 400,
                                 "Invalid YouTube URL")
                    [] OTHER ->
                         [req EXCEPT !.pc = after_validate(h), !.url = url,
                                     !.body = StringUrlBody(url),
                                     !.trace = <<"validate">>]]
    /\ UNCHANGED <<clock, ticks, fs, sample>>

(* --------------------------- clean_old_files -------------------------- *)
\* where the loop over DOWNLOAD_DIR.iterdir() goes on, or the function returns
loop_pc(todo) == IF todo = {} THEN "allocate" ELSE "clean_is_file"

\* clean_old_files(): current_time = time.time()
CleanTime(r) ==
    /\ rq[r].pc = "clean_time"
    /\ rq' = [rq EXCEPT ![r] =
                 [@ EXCEPT !.current_time = clock, !.pc = "clean_list",
                           !.trace = Append(@, "evict-stale")]]
    /\ UNCHANGED <<clock, ticks, fs, sample>>

\* for file in DOWNLOAD_DIR.iterdir(): the directory is listed
CleanStart(r) ==
    /\ rq[r].pc = "clean_list"
    /\ rq' = [rq EXCEPT ![r] =
                 [@ EXCEPT !.todo = Names(fs), !.listed = fs,
                           !.pc = loop_pc(Names(fs))]]
    /\ UNCHANGED <<clock, ticks, fs, sample>>

\* the next entry, in the directory's order (any); if file.is_file()
CleanIsFile(r) ==
    /\ rq[r].pc = "clean_is_file"
    /\ \E f \in rq[r].todo :
          LET rest == rq[r].todo \ {f}
          IN  rq' = [rq EXCEPT ![r] =
                  IF is_file(fs, f)
                  THEN [@ EXCEPT !.todo = rest, !.file = f, !.pc = "clean_stat"]
                  ELSE [@ EXCEPT !.todo = rest, !.pc = loop_pc(rest)]]
    /\ UNCHANGED <<clock, ticks, fs, sample>>

\* file_age = current_time - file.stat().st_mtime; stat() raises when the file
\* is gone, and the except around the whole loop ends the sweep
CleanStat(r) ==
    /\ rq[r].pc = "clean_stat"
    /\ rq' = [rq EXCEPT ![r] =
                 IF ~exists(fs, rq[r].file)
                 THEN [@ EXCEPT !.sweep_error = TRUE, !.pc = "allocate"]
                 ELSE IF is_old(rq[r].current_time, st_mtime(fs, rq[r].file))
                 THEN [@ EXCEPT !.pc = "clean_unlink"]
                 ELSE [@ EXCEPT !.pc = loop_pc(rq[r].todo)]]
    /\ UNCHANGED <<clock, ticks, fs, sample>>

\* file.unlink(): raises when the file is gone
CleanUnlink(r) ==
    /\ rq[r].pc = "clean_unlink"
    /\ IF ~exists(fs, rq[r].file)
       THEN /\ rq' = [rq EXCEPT ![r] = [@ EXCEPT !.sweep_error = TRUE, !.pc = "allocate"]]
            /\ fs' = fs
       ELSE /\ rq' = [rq EXCEPT ![r] =
                        [@ EXCEPT !.removed = @ \cup {e \in fs : e.name = rq[r].file},
                                  !.pc = loop_pc(rq[r].todo)]]
            /\ fs' = unlink(fs, rq[r].file)
    /\ UNCHANGED <<clock, ticks, sample>>

(* -------------------- download_video / download_audio ----------------- *)
\* timestamp = int(time.time()); output_template = ...; the locals of
\* clean_old_files are gone
Allocate(r) ==
    /\ rq[r].pc = "allocate"
    /\ rq' = [rq EXCEPT ![r] =
                 [@ EXCEPT !.timestamp = int_time(clock), !.pc = "extract",
                           !.current_time = 0, !.todo = {}, !.file = NoName,
                           !.sweep_error = FALSE, !.listed = {}, !.removed = {},
                           !.trace = Append(@, "allocate-path")]]
    /\ UNCHANGED <<clock, ticks, fs, sample>>

\* with yt_dlp.YoutubeDL(ydl_opts) as ydl: info = ydl.extract_info(url, download=True);
\* filename = ydl.prepare_filename(info); title = clean_filename(info.get('title', ...))
Extract(r) ==
    /\ rq[r].pc = "extract"
    /\ \E o \in ExtractOutcomes :
          LET req == [rq[r] EXCEPT !.trace = Append(@, "invoke-extraction")]
              info == [title |-> VideoTitle(req.url), ext |-> o.ext]
              prepared == output_template(req.handler, req.timestamp, info)
              made == IF o.made = "base" THEN prepared
                      ELSE with_ext(prepared, final_ext(req.handler))
          IN  CASE o.type = "download_error" ->
                     /\ rq' = [rq EXCEPT ![r] =
                                  LET c == download_error(req.handler, o.msg)
                                  IN  respond([req EXCEPT !.raised = o.msg], c.status, c.error)]
                     /\ fs' = fs
                [] o.type = "exception" ->
                     /\ rq' = [rq EXCEPT ![r] = unexpected(req)]
                     /\ fs' = fs
                [] OTHER ->
                     /\ rq' = [rq EXCEPT ![r] =
                                  [req EXCEPT !.prepared = prepared,
                                              !.filename = expected_filename(req.handler, prepared),
                                              !.title = clean_filename(info.title),
                                              !.wrote = IF o.made = "none" THEN NoName ELSE made,
                                              !.pc = "verify",
                                              !.trace = Append(@, "sanitize-title")]]
                     /\ fs' = IF o.made = "none" THEN fs ELSE write_file(fs, made, clock)
    /\ UNCHANGED <<clock, ticks, sample>>

\* if not os.path.exists(filename): audio returns 500, video goes on to the
\* .mp4 sibling
Verify(r) ==
    /\ rq[r].pc = "verify"
    /\ LET req == [rq[r] EXCEPT
                      !.trace = Append(@, "verify-file-exists"),
                      !.on_disk = {n \in Names(fs) : with_ext(n, "") = with_ext(rq[r].prepared, "")}]
       IN  rq' = [rq EXCEPT ![r] =
                     IF exists(fs, req.filename) THEN [req EXCEPT !.pc = "send"]
                     ELSE IF req.handler = "audio"
                     THEN respond(req, 500, "Download failed - MP3 conversion failed")
                     ELSE [req EXCEPT !.pc = "verify_mp4"]]
    /\ UNCHANGED <<clock, ticks, fs, sample>>

\* if os.path.exists(filename_mp4): filename = filename_mp4, else return 500;
\* a second look at the directory, after the first
VerifySibling(r) ==
    /\ rq[r].pc = "verify_mp4"
    /\ rq' = [rq EXCEPT ![r] =
                 IF exists(fs, mp4_sibling(rq[r].filename))
                 THEN [@ EXCEPT !.filename = mp4_sibling(rq[r].filename),
                                !.mp4_seen = "present", !.pc = "send"]
                 ELSE respond([@ EXCEPT !.mp4_seen = "absent"], 500,
                              "Download failed - file not found")]
    /\ UNCHANGED <<clock, ticks, fs, sample>>

\* return send_file(filename, as_attachment=True, download_name=f"{title}.mp4", ...);
\* opening a file that is gone raises, which the handler catches
Send(r) ==
    /\ rq[r].pc = "send"
    /\ rq' = [rq EXCEPT ![r] =
                 IF is_file(fs, rq[r].filename)
                 THEN [@ EXCEPT !.pc = "done", !.status = 200, !.resp = "file",
                                !.served = rq[r].filename,
                                !.trace = Append(@, "stream-response")]
                 ELSE unexpected(rq[r])]
    /\ UNCHANGED <<clock, ticks, fs, sample>>

(* ---------------------------- get_video_info -------------------------- *)
\* info = ydl.extract_info(url, download=False): metadata, a DownloadError, or
\* another exception
InfoExtract(r) ==
    /\ rq[r].pc = "info_extract"
    /\ \E o \in {"ok", "download_error", "exception"} :
          LET req == [rq[r] EXCEPT !.trace = Append(@, "invoke-extraction")]
          IN  rq' = [rq EXCEPT ![r] =
                  CASE o = "ok" -> [req EXCEPT !.pc = "done", !.status = 200, !.resp = "json_info"]
                    [] o = "download_error" -> respond(req, 400, "YouTube error")
                    [] OTHER -> unexpected(req)]
    /\ UNCHANGED <<clock, ticks, fs, sample>>

\* the server runs the handlers of concurrent requests on separate threads
Next ==
    \/ Tick
    \/ \E r \in Requests :
          \/ Receive(r)
          \/ CleanTime(r) \/ CleanStart(r) \/ CleanIsFile(r) \/ CleanStat(r)
          \/ CleanUnlink(r)
          \/ Allocate(r) \/ Extract(r) \/ Verify(r) \/ VerifySibling(r) \/ Send(r)
          \/ InfoExtract(r)

Spec == Init /\ [][Next]_vars

(* --------------- the handlers with NumServed requests ----------------- *)
NextServe ==
    \/ Tick
    \/ \E r \in 1 .. NumServed :
          \/ Receive(r)
          \/ CleanTime(r) \/ CleanStart(r) \/ CleanIsFile(r) \/ CleanStat(r)
          \/ CleanUnlink(r)
          \/ Allocate(r) \/ Extract(r) \/ Verify(r) \/ VerifySibling(r) \/ Send(r)
          \/ InfoExtract(r)

SpecServe == Init /\ [][NextServe]_vars

(* ------------------- one sweep over any directory --------------------- *)
\* directory contents for a sweep on its own: files 59 and 61 minutes old, a file
\* exactly MaxAge old, a fresh file and a sub-directory two hours old
SweepEntries ==
    { Entry(FileName("video", 3, <<"m", "5", "9">>, "mp4"), "file", StartClock - 59 * 60 * UnitsPerSecond),
      Entry(FileName("video", 2, <<"m", "6", "1">>, "mp4"), "file", StartClock - 61 * 60 * UnitsPerSecond),
      Entry(FileName("audio", 1, <<"e", "d", "g", "e">>, "mp3"), "file", StartClock - MaxAge * UnitsPerSecond),
      Entry(FileName("audio", 4, <<"n", "e", "w">>, "mp3"), "file", StartClock),
      Entry(FileName("", 0, <<"s", "u", "b">>, ""), "dir", 0) }

\* a download request that has passed validation and is about to call clean_old_files()
SweepingRequest(h) ==
    [IdleRequest EXCEPT !.pc = "clean_time", !.handler = h, !.url = <<"y", "o", "u", "t", "u", ".", "b", "e", "/", "a">>,
                        !.body = StringUrlBody(<<"y", "o", "u", "t", "u", ".", "b", "e", "/", "a">>), !.trace = <<"validate">>]

InitSweep ==
    /\ clock = StartClock
    /\ ticks = 0
    /\ fs \in SUBSET SweepEntries
    /\ \E h \in {"video", "audio"} :
          rq = [r \in Requests |-> IF r = 1 THEN SweepingRequest(h) ELSE IdleRequest]
    /\ sample = NoSample

NextSweep ==
    \/ Tick
    \/ CleanTime(1) \/ CleanStart(1) \/ CleanIsFile(1) \/ CleanStat(1) \/ CleanUnlink(1)

SpecSweep == InitSweep /\ [][NextSweep]_vars

(* ---------------------- clean_filename on its own --------------------- *)
CleanAlphabet == {"a", " ", ".", "?"}
\* a run of n letters
Pad(n) == [i \in 1 .. n |-> "a"]
PadLens == {0, MaxNameLen - 2, MaxNameLen - 1}
Tails == UNION {[1 .. n -> CleanAlphabet] : n \in 0 .. MaxTail}
CleanInputs == {Pad(n) \o t : n \in PadLens, t \in Tails}

InitClean ==
    /\ clock = StartClock
    /\ ticks = 0
    /\ fs = {}
    /\ rq = [r \in Requests |-> IdleRequest]
    /\ \E x \in CleanInputs :
          sample = [stage |-> "input", in |-> x, once |-> <<>>, twice |-> <<>>]

\* clean_filename applied to the input, and again to its own result
Sanitize ==
    /\ sample.stage = "input"
    /\ sample' = [sample EXCEPT !.stage = "cleaned",
                                !.once = clean_filename(sample.in),
                                !.twice = clean_filename(clean_filename(sample.in))]
    /\ UNCHANGED <<clock, ticks, fs, rq>>

NextClean == Sanitize

SpecClean == InitClean /\ [][NextClean]_vars

(* ------------------------------- claims -------------------------------- *)
Downloads == {"video", "audio"}
Verified(q) == \E i \in DOMAIN q.trace : q.trace[i] = "verify-file-exists"
Streamed(q) == \E i \in DOMAIN q.trace : q.trace[i] = "stream-response"

\* the request carries a string url that is non-empty after stripping and that
\* validate_youtube_url refuses
InvalidUrl(q) ==
    /\ q.body.json /\ q.body.has_url /\ q.body.type = "string"
    /\ strip(q.body.chars, Whitespace) # <<>>
    /\ ~validate_youtube_url(strip(q.body.chars, Whitespace))

\* C1: a download request whose url is non-empty after stripping and fails
\* validate_youtube_url is answered 400, and in that request nothing but the
\* validation has run: no sweep, no path allocation, no extraction, no file written.
C1_InvalidUrlShortCircuits ==
    \A r \in Requests :
        (rq[r].pc # "idle" /\ rq[r].handler \in Downloads /\ InvalidUrl(rq[r]))
            => /\ rq[r].pc = "done"
               /\ rq[r].status = 400
               /\ rq[r].resp = "json_error"
               /\ rq[r].trace = <<"validate">>
               /\ rq[r].prepared = NoName
               /\ rq[r].wrote = NoName
               /\ rq[r].listed = {} /\ rq[r].removed = {}

C1_Witness ==
    \E r \in Requests :
        /\ rq[r].pc = "done" /\ rq[r].handler \in Downloads /\ InvalidUrl(rq[r])
        /\ rq[r].status = 400

\* C2: two download requests of the same kind for the same url that are in
\* progress at the same time (both past extraction, neither answered) have written
\* two distinct files.
C2_ConcurrentFilesDistinct ==
    \A r1, r2 \in Requests :
        ( /\ r1 # r2
          /\ rq[r1].handler \in Downloads /\ rq[r1].handler = rq[r2].handler
          /\ rq[r1].url = rq[r2].url
          /\ rq[r1].pc \in {"verify", "verify_mp4", "send"}
          /\ rq[r2].pc \in {"verify", "verify_mp4", "send"}
          /\ rq[r1].wrote # NoName /\ rq[r2].wrote # NoName )
            => rq[r1].wrote # rq[r2].wrote

\* the url of the request is missing or malformed
MalformedUrl(q) ==
    \/ ~q.body.json
    \/ ~q.body.has_url
    \/ q.body.type # "string"
    \/ strip(q.body.chars, Whitespace) = <<>>
    \/ ~validate_youtube_url(strip(q.body.chars, Whitespace))

\* C3: every answered request of the three POST handlers whose url is missing or
\* malformed got status 400 with a JSON error body.
C3_MalformedUrlIs400 ==
    \A r \in Requests :
        (rq[r].pc = "done" /\ MalformedUrl(rq[r]))
            => (rq[r].status = 400 /\ rq[r].resp = "json_error")

\* the final file the handler needs was not on disk when it looked: for video
\* neither the prepared name (first look) nor its .mp4 sibling (second look), for
\* audio the .mp3 sibling
FinalFileMissing(q) ==
    IF q.handler = "audio"
    THEN [q.prepared EXCEPT !.ext = "mp3"] \notin q.on_disk
    ELSE q.prepared \notin q.on_disk /\ q.mp4_seen = "absent"

\* C4: when extraction returned without raising and the final file was missing at
\* the existence check, the handler answers 500 with a JSON error body and never
\* streams.
C4_MissingFileIs500 ==
    \A r \in Requests :
        (rq[r].handler \in Downloads /\ Verified(rq[r]) /\ FinalFileMissing(rq[r]))
            => /\ rq[r].pc = "done"
               /\ rq[r].status = 500
               /\ rq[r].resp = "json_error"
               /\ rq[r].served = NoName
               /\ ~Streamed(rq[r])

C4_Witness ==
    \E r \in Requests :
        /\ rq[r].handler = "audio" /\ Verified(rq[r]) /\ FinalFileMissing(rq[r])
        /\ rq[r].on_disk # {}
        /\ rq[r].status = 500

C4_WitnessVideo ==
    \E r \in Requests :
        /\ rq[r].handler = "video" /\ Verified(rq[r]) /\ FinalFileMissing(rq[r])
        /\ rq[r].status = 500

\* C5: clean_filename(clean_filename(s)) = clean_filename(s) for every input s.
C5_CleanIdempotent ==
    sample.stage = "cleaned" => sample.twice = sample.once

\* the entries of a listing that are regular files older than MaxAge at the sweep's
\* clock reading
StaleIn(listed, current_time) ==
    {e \in listed : e.type = "file" /\ current_time - e.mtime > 3600 * UnitsPerSecond}

\* C6: after a sweep without I/O error, exactly the regular files older than 3600
\* seconds have been removed; younger files and non-regular entries are still there.
C6_SweepRemovesExactlyStale ==
    \A r \in Requests :
        (rq[r].pc = "allocate" /\ ~rq[r].sweep_error)
            => /\ rq[r].removed = StaleIn(rq[r].listed, rq[r].current_time)
               /\ fs = rq[r].listed \ StaleIn(rq[r].listed, rq[r].current_time)

C6_Witness ==
    \E r \in Requests :
        /\ rq[r].pc = "allocate" /\ ~rq[r].sweep_error
        /\ rq[r].removed # {}
        /\ \E e \in fs : e.type = "file"
                         /\ rq[r].current_time - e.mtime = 3600 * UnitsPerSecond
        /\ \E e \in fs : e.type = "dir"

Blocked(msg) == Contains(msg, <<"4", "0", "3">>) \/ Contains(msg, <<"F", "o", "r", "b", "i", "d", "d", "e", "n">>)

\* C7: a download error whose message contains "403" or "Forbidden" is answered
\* 403 with a JSON error body in both download handlers, also when the message
\* mentions ffmpeg or ffprobe.
C7_BlockedIs403 ==
    \A r \in Requests :
        (rq[r].handler \in Downloads /\ rq[r].raised # <<>> /\ Blocked(rq[r].raised))
            => (rq[r].pc = "done" /\ rq[r].status = 403 /\ rq[r].resp = "json_error")

C7_Witness ==
    \E r \in Requests :
        /\ rq[r].handler = "audio" /\ Blocked(rq[r].raised)
        /\ Contains(lower(rq[r].raised), <<"f", "f", "m", "p", "e", "g">>)
        /\ rq[r].status = 403

\* C8: when a sweep met a failure on one file, every other stale regular file of
\* its listing that it had not yet visited has still been deleted when it returns.
C8_SweepSurvivesFileError ==
    \A r \in Requests :
        (rq[r].pc = "allocate" /\ rq[r].sweep_error)
            => \A e \in StaleIn(rq[r].listed, rq[r].current_time) :
                   e.name \in rq[r].todo => e \notin fs

SpecifiedOrder ==
    << "validate", "evict-stale", "allocate-path", "invoke-extraction",
       "verify-file-exists", "sanitize-title", "stream-response" >>
CodeOrder ==
    << "validate", "evict-stale", "allocate-path", "invoke-extraction",
       "sanitize-title", "verify-file-exists", "stream-response" >>

\* C9 as stated: a download answered 200 ran validate, evict-stale, allocate-path,
\* invoke extraction, verify-file-exists, sanitize-title, stream-response in this
\* order, each once.
C9_OrderAsStated ==
    \A r \in Requests :
        (rq[r].handler \in Downloads /\ rq[r].status = 200) => rq[r].trace = SpecifiedOrder

\* C9 amended: a download answered 200 ran validate, evict-stale, allocate-path,
\* invoke extraction, sanitize-title, verify-file-exists, stream-response in this
\* order, each once: the title is sanitized before the file is verified.
C9_OrderInCode ==
    \A r \in Requests :
        (rq[r].handler \in Downloads /\ rq[r].status = 200) => rq[r].trace = CodeOrder

C9_Witness ==
    \E r \in Requests : rq[r].handler \in Downloads /\ rq[r].status = 200

\* C10: the file of a request still in progress (extracted, not yet streamed) is
\* never removed by another request's sweep.
C10_InProgressFileKept ==
    \A r \in Requests :
        (rq[r].pc \in {"verify", "verify_mp4", "send"} /\ rq[r].wrote # NoName)
            => exists(fs, rq[r].wrote)

====
